---- MODULE Spec2Model ----
(***************************************************************************)
(* LocalStorageVec<T, N>: a list that lives in a fixed buffer of N slots   *)
(* on the stack while it is small and moves to a heap Vec when it grows.   *)
(* Model of 1-local-storage-vec/src/lib.rs.                                *)
(*                                                                         *)
(* Positions are 0-based in `buf` (a function on 0..N-1), as in the        *)
(* source; a Vec<T> and a slice &[T] are TLA+ sequences (1-based), so the  *)
(* source's v[i] is v[i+1] here.  Option<T> is a sequence of length <= 1:  *)
(* None is <<>>, Some(x) is <<x>>.                                         *)
(***************************************************************************)
EXTENDS Integers, Sequences, FiniteSets, TLC

\* ---- bounds of the model ----
MaxN == 3          \* inline capacities 0..MaxN are explored
MaxLen == 4        \* push/insert are not called once the length is MaxLen
MaxInit == 3       \* initializers (arrays, vecs) have at most MaxInit items
MaxIndex == 5      \* index arguments are drawn from 0..MaxIndex
MaxRange == 3      \* positions and range bounds of Index calls: 0..MaxRange
MaxSortLen == 4    \* merge_sort is given slices of at most MaxSortLen items

\* The element type T, with T::default() = Default.
Elems == {0, 1, 2, 9}
Default == 0

RECURSIVE SeqsUpTo(_)
SeqsUpTo(n) ==
  IF n = 0 THEN {<<>>}
  ELSE LET S == SeqsUpTo(n - 1)
       IN S \cup {Append(s, e) : s \in {t \in S : Len(t) = n - 1}, e \in Elems}

\* ---- the two variants of the enum ----
Stack(b, l) == [rep |-> "Stack", buf |-> b, len |-> l, vec |-> <<>>]
Heap(v) == [rep |-> "Heap", buf |-> <<>>, len |-> 0, vec |-> v]

\* buf.len(): the number of slots of the array [T; N]
BufLen(b) == Cardinality(DOMAIN b)

\* Vec::from(buf): every slot of the array, in order
VecFromBuf(b) == [i \in 1..BufLen(b) |-> b[i - 1]]

\* ---- what a call leaves behind: the container, the value, the panic ----
Returns(s, r) == [self |-> s, ret |-> r, panicked |-> FALSE]
Panics(s) == [self |-> s, ret |-> <<>>, panicked |-> TRUE]

\* ---- Vec<T> operations of the standard library ----
VecInsert(v, index, elem) ==
  [i \in 1..(Len(v) + 1) |->
     IF i < index + 1 THEN v[i]
     ELSE IF i = index + 1 THEN elem
     ELSE v[i - 1]]

VecRemove(v, index) ==
  [i \in 1..(Len(v) - 1) |-> IF i < index + 1 THEN v[i] ELSE v[i + 1]]

\* ---- conversions ----
\* variant: `N < M` for `N <= M`, an initializer that exactly fills the buffer
\* goes to the heap
from_array_strict(array, M) ==
  IF Len(array) < M
  THEN Stack([i \in 0..(M - 1) |-> IF i < Len(array) THEN array[i + 1] ELSE Default],
             Len(array))
  ELSE Heap(array)

from_array(array, M) ==
  IF Len(array) <= M
  THEN Stack([i \in 0..(M - 1) |-> IF i < Len(array) THEN array[i + 1] ELSE Default],
             Len(array))
  ELSE Heap(array)

\* variant: a Vec of the same capacity, without the elements
from_vec_empty(value) == Heap(<<>>)

from_vec(value) == Heap(value)

new(M) == from_array(<<>>, M)

as_ref(s) ==
  IF s.rep = "Stack"
  THEN [i \in 1..s.len |-> s.buf[i - 1]]
  ELSE s.vec

as_mut(s) ==
  IF s.rep = "Stack"
  THEN [i \in 1..s.len |-> s.buf[i - 1]]
  ELSE s.vec

len(s) == IF s.rep = "Stack" THEN s.len ELSE Len(s.vec)

\* ---- mutating operations ----
\* variant: the migration starts from Vec::new() instead of Vec::from(buf)
push_fresh(s, elem) ==
  IF s.rep = "Stack"
  THEN IF s.len < BufLen(s.buf)
       THEN Returns(Stack([s.buf EXCEPT ![s.len] = elem], s.len + 1), <<>>)
       ELSE Returns(from_vec(<<elem>>), <<>>)
  ELSE Returns(Heap(Append(s.vec, elem)), <<>>)

\* variant: `*len + 1 < buf.len()`, the migration happens one push early
push_early(s, elem) ==
  IF s.rep = "Stack"
  THEN IF s.len + 1 < BufLen(s.buf)
       THEN Returns(Stack([s.buf EXCEPT ![s.len] = elem], s.len + 1), <<>>)
       ELSE Returns(from_vec(Append([i \in 1..s.len |-> s.buf[i - 1]], elem)), <<>>)
  ELSE Returns(Heap(Append(s.vec, elem)), <<>>)

\* variant: the full branch bumps `len` instead of migrating
push_overfill(s, elem) ==
  IF s.rep = "Stack"
  THEN IF s.len < BufLen(s.buf)
       THEN Returns(Stack([s.buf EXCEPT ![s.len] = elem], s.len + 1), <<>>)
       ELSE Returns(Stack(s.buf, s.len + 1), <<>>)
  ELSE Returns(Heap(Append(s.vec, elem)), <<>>)

push(s, elem) ==
  IF s.rep = "Stack"
  THEN IF s.len < BufLen(s.buf)
       THEN Returns(Stack([s.buf EXCEPT ![s.len] = elem], s.len + 1), <<>>)
       ELSE Returns(from_vec(Append(VecFromBuf(s.buf), elem)), <<>>)
  ELSE Returns(Heap(Append(s.vec, elem)), <<>>)

\* variant: the Stack branch forgets `*len -= 1`
pop_keep_len(s) ==
  IF s.rep = "Stack"
  THEN IF s.len = 0
       THEN Returns(s, <<>>)
       ELSE Returns(s, <<s.buf[s.len - 1]>>)
  ELSE IF Len(s.vec) = 0
       THEN Returns(s, <<>>)
       ELSE Returns(Heap(SubSeq(s.vec, 1, Len(s.vec) - 1)), <<s.vec[Len(s.vec)]>>)

pop(s) ==
  IF s.rep = "Stack"
  THEN IF s.len = 0
       THEN Returns(s, <<>>)
       ELSE Returns(Stack(s.buf, s.len - 1), <<s.buf[s.len - 1]>>)
  ELSE IF Len(s.vec) = 0
       THEN Returns(s, <<>>)
       ELSE Returns(Heap(SubSeq(s.vec, 1, Len(s.vec) - 1)), <<s.vec[Len(s.vec)]>>)

\* for index in (index..*len).rev() { buf[index + 1] = buf[index].clone(); }
\* run from position idx downwards; ok is FALSE when buf[idx + 1] is out of
\* the array's bounds, and b is then the buffer at that moment
\* variant: the loop without .rev(), which copies buf[index] over the tail
InsertShiftForward(b, idx, index) ==
  IF idx + 1 >= BufLen(b) /\ idx >= index THEN [b |-> b, ok |-> FALSE]
  ELSE [b |-> [i \in DOMAIN b |-> IF i > index /\ i <= idx + 1 THEN b[index] ELSE b[i]],
        ok |-> TRUE]

RECURSIVE InsertShift(_, _, _)
InsertShift(b, idx, index) ==
  IF idx < index THEN [b |-> b, ok |-> TRUE]
  ELSE IF idx + 1 >= BufLen(b) THEN [b |-> b, ok |-> FALSE]
  ELSE InsertShift([b EXCEPT ![idx + 1] = b[idx]], idx - 1, index)

insert(s, index, elem) ==
  IF s.rep = "Stack"
  THEN IF s.len # BufLen(s.buf)
       THEN LET sh == InsertShift(s.buf, s.len - 1, index)
            IN IF ~sh.ok THEN Panics(Stack(sh.b, s.len))
               ELSE IF index >= BufLen(sh.b) THEN Panics(Stack(sh.b, s.len))
               ELSE Returns(Stack([sh.b EXCEPT ![index] = elem], s.len + 1), <<>>)
       ELSE LET new_buf == VecFromBuf(s.buf)
            IN IF index > Len(new_buf) THEN Panics(s)
               ELSE Returns(from_vec(VecInsert(new_buf, index, elem)), <<>>)
  ELSE IF index > Len(s.vec) THEN Panics(s)
       ELSE Returns(Heap(VecInsert(s.vec, index, elem)), <<>>)

\* for index in index..*len { buf[index] = buf[index + 1].clone(); }
\* run from position idx upwards to n - 1; ok is FALSE when buf[idx + 1] is
\* out of the array's bounds, and b is then the buffer at that moment
RECURSIVE RemoveShift(_, _, _)
RemoveShift(b, idx, n) ==
  IF idx >= n THEN [b |-> b, ok |-> TRUE]
  ELSE IF idx + 1 >= BufLen(b) THEN [b |-> b, ok |-> FALSE]
  ELSE RemoveShift([b EXCEPT ![idx] = b[idx + 1]], idx + 1, n)

\* variant: the Stack bounds test is `index > *len`; buf[index] beyond the
\* array still panics
remove_off_by_one(s, index) ==
  IF s.rep = "Stack"
  THEN IF s.len = 0 \/ index > s.len \/ index >= BufLen(s.buf)
       THEN Panics(s)
       ELSE LET output == s.buf[index]
                sh == RemoveShift(s.buf, index, s.len)
            IN IF ~sh.ok THEN Panics(Stack(sh.b, s.len))
               ELSE Returns(Stack(sh.b, s.len - 1), <<output>>)
  ELSE IF index >= Len(s.vec) THEN Panics(s)
       ELSE Returns(Heap(VecRemove(s.vec, index)), <<s.vec[index + 1]>>)

remove(s, index) ==
  IF s.rep = "Stack"
  THEN IF s.len = 0 \/ index >= s.len
       THEN Panics(s)
       ELSE LET output == s.buf[index]
                sh == RemoveShift(s.buf, index, s.len)
            IN IF ~sh.ok THEN Panics(Stack(sh.b, s.len))
               ELSE Returns(Stack(sh.b, s.len - 1), <<output>>)
  ELSE IF index >= Len(s.vec) THEN Panics(s)
       ELSE Returns(Heap(VecRemove(s.vec, index)), <<s.vec[index + 1]>>)

\* variant: the Stack branch leaves `len` alone
clear_heap_only(s) ==
  IF s.rep = "Stack"
  THEN Returns(s, <<>>)
  ELSE Returns(Heap(<<>>), <<>>)

clear(s) ==
  IF s.rep = "Stack"
  THEN Returns(Stack(s.buf, 0), <<>>)
  ELSE Returns(Heap(<<>>), <<>>)

\* ---- indexing: &self.as_ref()[index], with the slice's bounds checks ----
\* variant: the Stack branch indexes the array `buf`, not the live slice
index_usize_buf(s, index) ==
  IF s.rep = "Stack"
  THEN IF index >= BufLen(s.buf) THEN Panics(s)
       ELSE Returns(s, <<s.buf[index]>>)
  ELSE IF index >= Len(s.vec) THEN Panics(s)
       ELSE Returns(s, <<s.vec[index + 1]>>)

index_usize(s, index) ==
  LET v == as_ref(s)
  IN IF index >= Len(v) THEN Panics(s)
     ELSE Returns(s, <<v[index + 1]>>)

index_range_to(s, end) ==
  LET v == as_ref(s)
  IN IF end > Len(v) THEN Panics(s)
     ELSE Returns(s, SubSeq(v, 1, end))

\* variant: the Stack branch slices the array `buf`, not the live slice
index_range_from_buf(s, start) ==
  LET v == IF s.rep = "Stack" THEN VecFromBuf(s.buf) ELSE s.vec
  IN IF start > Len(v) THEN Panics(s)
     ELSE Returns(s, SubSeq(v, start + 1, Len(v)))

index_range_from(s, start) ==
  LET v == as_ref(s)
  IN IF start > Len(v) THEN Panics(s)
     ELSE Returns(s, SubSeq(v, start + 1, Len(v)))

index_range(s, start, end) ==
  LET v == as_ref(s)
  IN IF start > end \/ end > Len(v) THEN Panics(s)
     ELSE Returns(s, SubSeq(v, start + 1, end))

\* ---- the borrowing iterator ----
\* iter(&self) and <&LocalStorageVec as IntoIterator>::into_iter build the
\* same value
iter(s) == [data |-> as_ref(s), index |-> 0]

\* variant: next() forgets `self.index += 1`
next_stuck(it) ==
  IF it.index >= Len(it.data)
  THEN [it |-> it, ret |-> <<>>]
  ELSE [it |-> it, ret |-> <<it.data[it.index + 1]>>]

next(it) ==
  IF it.index >= Len(it.data)
  THEN [it |-> it, ret |-> <<>>]
  ELSE [it |-> [it EXCEPT !.index = @ + 1], ret |-> <<it.data[it.index + 1]>>]

\* the iterators that can be alive at the same time
IterIds == {1, 2}

\* ---- 3-slices-extra: merge sort ----
\* The items are compared with <=, a total order; numbers stand for the
\* Strings of the source.
\* while a_idx < a.len() && b_idx < b.len() { ... }
RECURSIVE MergeLoop(_, _, _, _, _)
MergeLoop(a, b, a_idx, b_idx, dest) ==
  IF a_idx < Len(a) /\ b_idx < Len(b)
  THEN IF a[a_idx + 1] <= b[b_idx + 1]
       THEN MergeLoop(a, b, a_idx + 1, b_idx, Append(dest, a[a_idx + 1]))
       ELSE MergeLoop(a, b, a_idx, b_idx + 1, Append(dest, b[b_idx + 1]))
  ELSE [dest |-> dest, a_idx |-> a_idx, b_idx |-> b_idx]

\* variant: without the loop over b[b_idx..]
merge_without_b_tail(a, b) ==
  LET w == MergeLoop(a, b, 0, 0, <<>>)
  IN w.dest \o SubSeq(a, w.a_idx + 1, Len(a))

merge(a, b) ==
  LET w == MergeLoop(a, b, 0, 0, <<>>)
  IN w.dest \o SubSeq(a, w.a_idx + 1, Len(a)) \o SubSeq(b, w.b_idx + 1, Len(b))

RECURSIVE merge_sort(_)
merge_sort(data) ==
  LET dat_len == Len(data)
  IN IF dat_len > 1
     THEN LET mid == dat_len \div 2
              left == merge_sort(SubSeq(data, 1, mid))
              right == merge_sort(SubSeq(data, mid + 1, dat_len))
          IN merge(left, right)
     ELSE data

\* ---- the state ----
VARIABLES
  N,        \* the const generic N of LocalStorageVec<T, N>
  self,     \* the container
  status,   \* "ok", or "panicked" once a call has halted the program
  call,     \* the last call made: its name and arguments
  ret,      \* what the last call returned (<<>> for () and None)
  old,      \* the container as it was when the last call was made
  run,      \* the calls made so far, while they are all pushes or all pops
  ref,      \* a plain Vec<T> given the same calls, while their indices are in bounds
  iters,    \* the live iterators, each with the items it has yielded so far
  script    \* how many calls of Script have been made, in order; -1 otherwise

vars == <<N, self, status, call, ret, old, run, ref, iters, script>>

Call(op, index, elem, arr) == [op |-> op, index |-> index, elem |-> elem, arr |-> arr]

\* run.kind is "fresh" after construction, "pushes" / "pops" while every call
\* so far was a push / a pop (at most Len(base) + 1 pops are recorded), and
\* "mixed" afterwards.  base is the initializer, log the pushed elements or
\* the values the pops returned.
Fresh(op, arr) == [kind |-> "fresh", origin |-> op, base |-> arr, log |-> <<>>]
Mixed == [kind |-> "mixed", origin |-> "", base |-> <<>>, log |-> <<>>]

RunAfter(op, entry) ==
  IF op = "push" /\ run.kind \in {"fresh", "pushes"}
  THEN [run EXCEPT !.kind = "pushes", !.log = Append(@, entry)]
  ELSE IF op = "pop" /\ run.kind \in {"fresh", "pops"} /\ Len(run.log) <= Len(run.base)
  THEN [run EXCEPT !.kind = "pops", !.log = Append(@, entry)]
  ELSE Mixed

\* ref.live holds while every insert had index <= length and every remove
\* index < length; list is the Vec, ret what its last pop / remove returned.
RefLive(list, r) == [live |-> TRUE, list |-> list, ret |-> r]
RefOff == [live |-> FALSE, list |-> <<>>, ret |-> <<>>]

RefAfter(op, index, elem) ==
  LET v == ref.list
  IN IF ~ref.live THEN RefOff
     ELSE IF op = "push" THEN RefLive(Append(v, elem), <<>>)
     ELSE IF op = "pop"
          THEN IF Len(v) = 0 THEN RefLive(v, <<>>)
               ELSE RefLive(SubSeq(v, 1, Len(v) - 1), <<v[Len(v)]>>)
     ELSE IF op = "insert"
          THEN IF index > Len(v) THEN RefOff
               ELSE RefLive(VecInsert(v, index, elem), <<>>)
     ELSE IF op = "remove"
          THEN IF index >= Len(v) THEN RefOff
               ELSE RefLive(VecRemove(v, index), <<v[index + 1]>>)
     ELSE RefLive(<<>>, <<>>)

\* The calls of the walk-through: push 0, 1, 2, insert 9 at 1, remove
\* position 0, then one iterator run to its end.
Script ==
  << Call("push", 0, 0, <<>>), Call("push", 0, 1, <<>>), Call("push", 0, 2, <<>>),
     Call("insert", 1, 9, <<>>), Call("remove", 0, Default, <<>>),
     Call("iter", 1, Default, <<>>),
     Call("next", 1, Default, <<>>), Call("next", 1, Default, <<>>),
     Call("next", 1, Default, <<>>), Call("next", 1, Default, <<>>) >>

ScriptAfter(c) ==
  IF script >= 0 /\ script < Len(Script) /\ c = Script[script + 1]
  THEN script + 1
  ELSE -1

\* a `&mut self` call ends the borrow of every iterator
NoIters == <<>>

Init ==
  /\ N \in 0..MaxN
  /\ \E arr \in SeqsUpTo(MaxInit) :
       \/ /\ self = from_array(arr, N)
          /\ call = Call("from_array", 0, Default, arr)
          /\ run = Fresh("from_array", arr)
       \/ /\ self = from_vec(arr)
          /\ call = Call("from_vec", 0, Default, arr)
          /\ run = Fresh("from_vec", arr)
       \/ /\ arr = <<>>
          /\ self = new(N)
          /\ call = Call("new", 0, Default, arr)
          /\ run = Fresh("new", arr)
  /\ status = "ok"
  /\ ret = <<>>
  /\ old = self
  /\ ref = RefLive(call.arr, <<>>)
  /\ iters = NoIters
  /\ script = IF call.op = "new" /\ N = 2 THEN 0 ELSE -1

\* the walk-through starts from LocalStorageVec::<_, 2>::new()
InitScript ==
  /\ Init
  /\ call.op = "new"
  /\ N = 2

Finish(r) ==
  /\ self' = r.self
  /\ old' = self
  /\ ret' = r.ret
  /\ status' = IF r.panicked THEN "panicked" ELSE "ok"
  /\ UNCHANGED N

Push ==
  /\ status = "ok"
  /\ len(self) < MaxLen
  /\ \E elem \in Elems :
       /\ Finish(push(self, elem))
       /\ call' = Call("push", 0, elem, <<>>)
       /\ script' = ScriptAfter(call')
       /\ run' = RunAfter("push", elem)
       /\ ref' = RefAfter("push", 0, elem)
       /\ iters' = NoIters

Pop ==
  /\ status = "ok"
  /\ Finish(pop(self))
  /\ call' = Call("pop", 0, Default, <<>>)
  /\ script' = ScriptAfter(call')
  /\ run' = RunAfter("pop", pop(self).ret)
  /\ ref' = RefAfter("pop", 0, Default)
  /\ iters' = NoIters

Insert ==
  /\ status = "ok"
  /\ len(self) < MaxLen
  /\ \E index \in 0..MaxIndex, elem \in Elems :
       /\ Finish(insert(self, index, elem))
       /\ call' = Call("insert", index, elem, <<>>)
       /\ script' = ScriptAfter(call')
       /\ run' = RunAfter("insert", elem)
       /\ ref' = RefAfter("insert", index, elem)
       /\ iters' = NoIters

Remove ==
  /\ status = "ok"
  /\ \E index \in 0..MaxIndex :
       /\ Finish(remove(self, index))
       /\ call' = Call("remove", index, Default, <<>>)
       /\ script' = ScriptAfter(call')
       /\ run' = RunAfter("remove", index)
       /\ ref' = RefAfter("remove", index, Default)
       /\ iters' = NoIters

\* variant: clear() as `*self = Self::new()`
ClearAsNew ==
  /\ status = "ok"
  /\ Finish(Returns(new(N), <<>>))
  /\ call' = Call("clear", 0, Default, <<>>)
  /\ script' = ScriptAfter(call')
  /\ run' = RunAfter("clear", 0)
  /\ ref' = RefAfter("clear", 0, Default)
  /\ iters' = NoIters

Clear ==
  /\ status = "ok"
  /\ Finish(clear(self))
  /\ call' = Call("clear", 0, Default, <<>>)
  /\ script' = ScriptAfter(call')
  /\ run' = RunAfter("clear", 0)
  /\ ref' = RefAfter("clear", 0, Default)
  /\ iters' = NoIters

\* ---- reads: the container is borrowed, not changed ----
\* call.arr holds the bounds of a range: <<end>>, <<start>> or <<start, end>>
Index ==
  /\ status = "ok"
  /\ \E index \in 0..MaxRange :
       /\ Finish(index_usize(self, index))
       /\ call' = Call("index", index, Default, <<>>)
       /\ script' = ScriptAfter(call')
  /\ run' = RunAfter("index", 0)
  /\ UNCHANGED <<ref, iters>>

IndexRangeTo ==
  /\ status = "ok"
  /\ \E end \in 0..MaxRange :
       /\ Finish(index_range_to(self, end))
       /\ call' = Call("index_range_to", 0, Default, <<end>>)
       /\ script' = ScriptAfter(call')
  /\ run' = RunAfter("index", 0)
  /\ UNCHANGED <<ref, iters>>

IndexRangeFrom ==
  /\ status = "ok"
  /\ \E start \in 0..MaxRange :
       /\ Finish(index_range_from(self, start))
       /\ call' = Call("index_range_from", 0, Default, <<start>>)
       /\ script' = ScriptAfter(call')
  /\ run' = RunAfter("index", 0)
  /\ UNCHANGED <<ref, iters>>

IndexRange ==
  /\ status = "ok"
  /\ \E start \in 0..MaxRange, end \in 0..MaxRange :
       /\ Finish(index_range(self, start, end))
       /\ call' = Call("index_range", 0, Default, <<start, end>>)
       /\ script' = ScriptAfter(call')
  /\ run' = RunAfter("index", 0)
  /\ UNCHANGED <<ref, iters>>

\* ---- iterators ----
Iter ==
  /\ status = "ok"
  /\ Len(iters) < Cardinality(IterIds)
  /\ iters' = Append(iters, [it |-> iter(self), out |-> <<>>])
  /\ Finish(Returns(self, <<>>))
  /\ call' = Call("iter", Len(iters) + 1, Default, <<>>)
  /\ script' = ScriptAfter(call')
  /\ run' = RunAfter("iter", 0)
  /\ UNCHANGED ref

IterNext ==
  /\ status = "ok"
  /\ \E k \in 1..Len(iters) :
       LET r == next(iters[k].it)
       IN /\ iters' = [iters EXCEPT ![k] = [it |-> r.it, out |-> iters[k].out \o r.ret]]
          /\ Finish(Returns(self, r.ret))
          /\ call' = Call("next", k, Default, <<>>)
          /\ script' = ScriptAfter(call')
  /\ run' = RunAfter("next", 0)
  /\ UNCHANGED ref

Next == Push \/ Pop \/ Insert \/ Remove \/ Clear

Spec == Init /\ [][Next]_vars

\* Indexing a container as constructed, or after pops and a clear have left
\* values behind in the Inline buffer.
NextIndex == Pop \/ Clear \/ Index \/ IndexRangeTo \/ IndexRangeFrom \/ IndexRange

SpecIndex == Init /\ [][NextIndex]_vars

\* Iterating a container as constructed, or after pops and a clear have left
\* values behind in the Inline buffer.
NextIter == Pop \/ Clear \/ Iter \/ IterNext

SpecIter == Init /\ [][NextIter]_vars

\* The mutating calls, with iterators taken and advanced between them.
NextScript == Push \/ Pop \/ Insert \/ Remove \/ Clear \/ Iter \/ IterNext

SpecScript == InitScript /\ [][NextScript]_vars

\* ---- merge sort as a program: the input is read, then sorted or merged ----
IsSorted(v) == \A i \in 1..(Len(v) - 1) : v[i] <= v[i + 1]

InitSort ==
  /\ \E input \in SeqsUpTo(MaxSortLen) : call = Call("read_numbers", 0, Default, input)
  /\ ret = <<>>
  /\ status = "ok"
  /\ N = 0
  /\ self = new(0)
  /\ old = self
  /\ run = Mixed
  /\ ref = RefOff
  /\ iters = NoIters
  /\ script = -1

\* merge_sort(&input)
MergeSort ==
  /\ call.op = "read_numbers"
  /\ ret' = merge_sort(call.arr)
  /\ call' = Call("merge_sort", 0, Default, call.arr)
  /\ UNCHANGED <<N, self, status, old, run, ref, iters, script>>

\* merge(&input[..mid], &input[mid..]) when both slices are sorted
Merge ==
  /\ call.op = "read_numbers"
  /\ \E mid \in 0..Len(call.arr) :
       LET a == SubSeq(call.arr, 1, mid)
           b == SubSeq(call.arr, mid + 1, Len(call.arr))
       IN /\ IsSorted(a) /\ IsSorted(b)
          /\ ret' = merge(a, b)
          /\ call' = Call("merge", mid, Default, call.arr)
  /\ UNCHANGED <<N, self, status, old, run, ref, iters, script>>

NextSort == MergeSort \/ Merge

SpecSort == InitSort /\ [][NextSort]_vars

\* ---- fizzbuzz: a String is the sequence of its characters ----
\* the largest argument given to fizz_buzz and fast_fizz_buzz; every u32
\* operation on it is a remainder or a division, so none can overflow
MaxFizz == 60

Fizz == <<"F", "i", "z", "z">>
Buzz == <<"B", "u", "z", "z">>
FizzBuzzStr == Fizz \o Buzz

Digit(d) == <<"0", "1", "2", "3", "4", "5", "6", "7", "8", "9">>[d + 1]

\* format!("{i}") and i.to_string(): the decimal digits of i, most
\* significant first, a single "0" for 0
RECURSIVE to_string(_)
to_string(i) ==
  IF i < 10 THEN <<Digit(i)>> ELSE Append(to_string(i \div 10), Digit(i % 10))

fizz_buzz(i) ==
  IF i % 3 = 0
  THEN IF i % 5 = 0 THEN FizzBuzzStr ELSE Fizz
  ELSE IF i % 5 = 0 THEN Buzz ELSE to_string(i)

\* the branches in the order of the source: i % 15 is tested last
fast_fizz_buzz(i) ==
  IF i % 3 = 0 THEN Fizz
  ELSE IF i % 5 = 0 THEN Buzz
  ELSE IF i % 15 = 0 THEN FizzBuzzStr
  ELSE to_string(i)

InitFizz ==
  /\ \E i \in 0..MaxFizz : call = Call("input", i, Default, <<>>)
  /\ ret = <<>>
  /\ status = "ok"
  /\ N = 0
  /\ self = new(0)
  /\ old = self
  /\ run = Mixed
  /\ ref = RefOff
  /\ iters = NoIters
  /\ script = -1

\* fizz_buzz(i)
FizzBuzz ==
  /\ call.op = "input"
  /\ ret' = fizz_buzz(call.index)
  /\ call' = Call("fizz_buzz", call.index, Default, <<>>)
  /\ UNCHANGED <<N, self, status, old, run, ref, iters, script>>

\* fast_fizz_buzz(i), called after fizz_buzz(i), whose result is kept in
\* call.arr
FastFizzBuzz ==
  /\ call.op = "fizz_buzz"
  /\ ret' = fast_fizz_buzz(call.index)
  /\ call' = Call("fast_fizz_buzz", call.index, Default, ret)
  /\ UNCHANGED <<N, self, status, old, run, ref, iters, script>>

NextFizz == FizzBuzz \/ FastFizzBuzz

SpecFizz == InitFizz /\ [][NextFizz]_vars

TypeOK ==
  /\ N \in 0..MaxN
  /\ self.rep \in {"Stack", "Heap"}
  /\ status \in {"ok", "panicked"}
  /\ call.op \notin {"index_range", "index_range_to", "index_range_from",
                     "merge_sort", "merge", "fizz_buzz", "fast_fizz_buzz"}
       => Len(ret) <= 1

\* ---------------------------------------------------------------------
\* Properties
\* ---------------------------------------------------------------------

\* v with position i (0-based) deleted
Deleted(v, i) == SubSeq(v, 1, i) \o SubSeq(v, i + 2, Len(v))

\* v with e inserted before position i (0-based)
Inserted(v, i, e) == SubSeq(v, 1, i) \o <<e>> \o SubSeq(v, i + 1, Len(v))

\* C1: remove(index) with index < length returns normally with the element
\* that was at position index, and the view afterwards is the previous view
\* with that one position deleted and the length one less -- in every
\* representation, a full Inline buffer included.
C1_RemoveInBounds ==
  (call.op = "remove" /\ call.index < len(old)) =>
    /\ status = "ok"
    /\ ret = <<as_ref(old)[call.index + 1]>>
    /\ as_ref(self) = Deleted(as_ref(old), call.index)
    /\ len(self) = len(old) - 1

\* C2: insert(i, e) with i <= length followed by remove(i) returns e and
\* leaves the view as it was before the insert.
C2_InsertRemoveRoundTrip ==
  [][(/\ call.op = "insert" /\ status = "ok" /\ call.index <= len(old)
      /\ call'.op = "remove" /\ call'.index = call.index)
     => (/\ status' = "ok"
         /\ ret' = <<call.elem>>
         /\ as_ref(self') = as_ref(old))]_vars

\* C3: insert(index, elem) with index > length halts in every
\* representation and leaves the length and the view unchanged.
C3_InsertOutOfBoundsHalts ==
  (call.op = "insert" /\ call.index > len(old)) =>
    /\ status = "panicked"
    /\ len(self) = len(old)
    /\ as_ref(self) = as_ref(old)

\* C4: push(e) returns normally; afterwards the length is the old length
\* plus 1, the last element of the view is e and the elements before it are
\* the old view in the same order.
C4_PushAppends ==
  call.op = "push" =>
    /\ status = "ok"
    /\ len(self) = len(old) + 1
    /\ as_ref(self)[len(self)] = call.elem
    /\ SubSeq(as_ref(self), 1, len(old)) = as_ref(old)

\* a push that migrated a full, non-empty Inline buffer to the heap
C4_Witness ==
  /\ call.op = "push" /\ status = "ok"
  /\ old.rep = "Stack" /\ old.len = N /\ N = MaxN
  /\ self.rep = "Heap"

\* C5: insert(index, e) with index <= length yields
\* old[0..index] ++ [e] ++ old[index..length], one longer than before; an
\* Inline container with length < N stays Inline, a full one becomes Heap,
\* a Heap one stays Heap.
C5_InsertInBounds ==
  (call.op = "insert" /\ call.index <= len(old)) =>
    /\ status = "ok"
    /\ as_ref(self) = Inserted(as_ref(old), call.index, call.elem)
    /\ len(self) = len(old) + 1
    /\ self.rep = IF old.rep = "Stack" /\ old.len < N THEN "Stack" ELSE "Heap"

\* an in-place insert in front of an element, two positions before the end
C5_Witness ==
  /\ call.op = "insert" /\ status = "ok"
  /\ old.rep = "Stack" /\ old.len = 2 /\ call.index = 0
  /\ old.buf[0] # old.buf[1] /\ call.elem # old.buf[0]
  /\ self.rep = "Stack"

\* C6: pop on an empty container returns None; on a container built from K
\* elements, K successive pops return the elements from the last position
\* to the first, and the (K+1)-th pop returns None.
C6_PopsReverse ==
  run.kind = "pops" =>
    /\ status = "ok"
    /\ \A j \in 1..Len(run.log) :
         run.log[j] = IF j <= Len(run.base)
                      THEN <<run.base[Len(run.base) - j + 1]>>
                      ELSE <<>>

\* an Inline container built from an array of two different elements,
\* popped three times
C6_Witness ==
  /\ run.kind = "pops" /\ run.origin = "from_array"
  /\ Len(run.base) = 2 /\ run.base[1] # run.base[2]
  /\ Len(run.log) = 3
  /\ self.rep = "Stack"

\* C7: from new(), after each of the first N pushes the container is Inline
\* with length equal to the number of pushes; after the (N+1)-th push it is
\* Heap and its view is the N+1 pushed elements in order.
C7_PushesMigrateAtNPlus1 ==
  (run.kind = "pushes" /\ run.origin = "new") =>
    /\ Len(run.log) <= N => (self.rep = "Stack" /\ self.len = Len(run.log))
    /\ Len(run.log) = N + 1 => (self.rep = "Heap" /\ as_ref(self) = run.log)

\* N + 1 pushes of different elements into an empty container of capacity 2
C7_Witness ==
  /\ run.kind = "pushes" /\ run.origin = "new"
  /\ N = 2 /\ Len(run.log) = N + 1
  /\ run.log[1] # run.log[2] /\ run.log[2] # run.log[3]

\* C8: from an array of length K: when K <= N, Inline with length K, the
\* view equal to the array and positions K..N of the buffer holding the
\* default; when K > N, Heap with length K and the view equal to the array.
\* new() is Inline with length 0.
C8_Construction ==
  /\ call.op = "from_array" =>
       LET K == Len(call.arr)
       IN IF K <= N
          THEN /\ self.rep = "Stack" /\ self.len = K
               /\ as_ref(self) = call.arr
               /\ DOMAIN self.buf = 0..(N - 1)
               /\ \A i \in K..(N - 1) : self.buf[i] = Default
          ELSE /\ self.rep = "Heap" /\ len(self) = K
               /\ as_ref(self) = call.arr
  /\ call.op = "new" => (self.rep = "Stack" /\ self.len = 0)

\* an array that exactly fills the buffer
C8_Witness ==
  /\ call.op = "from_array" /\ N = 2 /\ Len(call.arr) = N
  /\ call.arr[1] # Default /\ call.arr[2] # Default

\* C9: Inline becomes Heap only in a push or insert that starts with
\* length = N; a push or insert on an Inline container with length < N
\* leaves it Inline; pop, remove and clear never change the representation.
C9_MigrationOnlyWhenFull ==
  [][/\ (self.rep = "Stack" /\ self'.rep = "Heap")
          => (call'.op \in {"push", "insert"} /\ self.len = N)
     /\ (call'.op \in {"push", "insert"} /\ self.rep = "Stack" /\ self.len < N)
          => self'.rep = "Stack"
     /\ call'.op \in {"pop", "remove", "clear"} => self'.rep = self.rep]_vars

\* an insert that migrated a full buffer of two slots
C9_Witness ==
  /\ call.op = "insert" /\ status = "ok"
  /\ old.rep = "Stack" /\ old.len = N /\ N = 2
  /\ self.rep = "Heap"

\* C10: once Heap, Heap in every later state, also when the length drops to
\* N or below.
C10_NoShrinkBack ==
  [][self.rep = "Heap" => self'.rep = "Heap"]_vars

\* a Heap container emptied by clear, in a container of capacity 2
C10_Witness ==
  /\ old.rep = "Heap" /\ Len(old.vec) > 0
  /\ self.rep = "Heap" /\ len(self) = 0
  /\ call.op = "clear" /\ N = 2

\* C11: in every reachable state, whatever the calls and their index
\* arguments were, an Inline container has length <= N.
C11_InlineLenWithinN ==
  self.rep = "Stack" => (self.len <= N /\ BufLen(self.buf) = N)

\* an Inline container filled to N = 3 by an insert
C11_Witness ==
  /\ self.rep = "Stack" /\ self.len = N /\ N = 3
  /\ call.op = "insert" /\ status = "ok"

\* C13: clear() leaves length 0 and an empty view in the representation the
\* container had before; a push that follows a clear on an Inline container
\* writes position 0 again.
C13_ClearKeepsRepresentation ==
  [][/\ call'.op = "clear" =>
          /\ status' = "ok"
          /\ len(self') = 0 /\ as_ref(self') = <<>>
          /\ self'.rep = self.rep
     /\ (call.op = "clear" /\ call'.op = "push" /\ self.rep = "Stack" /\ N > 0) =>
          /\ self'.rep = "Stack" /\ self'.len = 1
          /\ self'.buf[0] = call'.elem
          /\ as_ref(self') = <<call'.elem>>]_vars

\* a full Inline container of capacity 3, cleared
C13_Witness ==
  /\ call.op = "clear" /\ status = "ok"
  /\ old.rep = "Stack" /\ old.len = N /\ N = 3
  /\ self.rep = "Stack" /\ self.len = 0

\* C14: remove(index) with index >= length halts in both representations
\* and returns nothing; pop on an empty container returns None without
\* halting.
C14_RemoveOutOfBoundsHalts ==
  /\ (call.op = "remove" /\ call.index >= len(old)) =>
       (status = "panicked" /\ ret = <<>>)
  /\ (call.op = "pop" /\ len(old) = 0) =>
       (status = "ok" /\ ret = <<>>)

\* remove(length) on a non-empty Inline container with a free slot
C14_Witness ==
  /\ call.op = "remove" /\ status = "panicked"
  /\ old.rep = "Stack" /\ old.len = 1 /\ N = 3
  /\ call.index = old.len

\* C16: from(Vec) is a Heap container whose view is that Vec, for every
\* length, 0 and lengths within N included.
C16_FromVecIsHeap ==
  call.op = "from_vec" =>
    (self.rep = "Heap" /\ as_ref(self) = call.arr /\ len(self) = Len(call.arr))

\* a Vec of one element into a container of capacity 3
C16_Witness ==
  /\ call.op = "from_vec" /\ Len(call.arr) = 1 /\ N = 3
  /\ self.rep = "Heap"

\* C12: next to a plain list given the same initial contents and the same
\* calls (insert with index <= length, remove with index < length): after
\* every call that returns, the read view and the write view both equal the
\* list and len() is its length, and every pop / remove returns what the
\* list's pop / remove returns.
C12_RefinesPlainList ==
  ref.live =>
    /\ status = "ok" =>
         /\ as_ref(self) = ref.list
         /\ as_mut(self) = ref.list
         /\ len(self) = Len(ref.list)
    /\ call.op \in {"pop", "remove"} => (status = "ok" /\ ret = ref.ret)

\* C15: indexing is checked against the live length, not the capacity:
\* position i with i >= length, or a range whose end exceeds length, halts
\* (also for an Inline container with length <= i < N); position
\* i < length returns the i-th element of the view.
C15_IndexCheckedAgainstLen ==
  /\ call.op = "index" =>
       IF call.index < len(old)
       THEN status = "ok" /\ ret = <<as_ref(old)[call.index + 1]>>
       ELSE status = "panicked"
  /\ (call.op = "index_range_to" /\ call.arr[1] > len(old)) => status = "panicked"
  /\ (call.op = "index_range" /\ call.arr[2] > len(old)) => status = "panicked"

\* position `length` of an Inline container, where a pop has left a value
\* other than the default in the buffer
C15_Witness ==
  /\ call.op = "index" /\ status = "panicked"
  /\ old.rep = "Stack" /\ old.len > 0 /\ old.len < N
  /\ call.index = old.len
  /\ old.buf[call.index] # Default

\* C18: for 0 <= a <= b <= L, [a..b] returns v[a..b], [a..] returns v[a..L]
\* and [..b] returns v[0..b], in both representations.
C18_RangesReturnSubviews ==
  LET v == as_ref(old)
      Part(a, b) == [k \in 1..(b - a) |-> v[a + k]]
  IN /\ (call.op = "index_range" /\ call.arr[1] <= call.arr[2] /\ call.arr[2] <= Len(v)) =>
          (status = "ok" /\ ret = Part(call.arr[1], call.arr[2]))
     /\ (call.op = "index_range_from" /\ call.arr[1] <= Len(v)) =>
          (status = "ok" /\ ret = Part(call.arr[1], Len(v)))
     /\ (call.op = "index_range_to" /\ call.arr[1] <= Len(v)) =>
          (status = "ok" /\ ret = Part(0, call.arr[1]))

\* [1..] of an Inline container holding [a, b, c]
C18_Witness ==
  /\ call.op = "index_range_from" /\ call.arr = <<1>> /\ status = "ok"
  /\ old.rep = "Stack" /\ old.len = 3
  /\ old.buf[0] # old.buf[1] /\ old.buf[1] # old.buf[2]
  /\ ret = <<old.buf[1], old.buf[2]>>

\* C17: an iterator over a container in either representation yields the
\* view's elements in order from position 0, exactly length of them, and
\* then None on every later request; taking and running it leaves the
\* container as it was; two iterators over the same container each yield
\* the full sequence.
C17_IteratorYieldsView ==
  LET v == as_ref(self)
  IN /\ \A k \in 1..Len(iters) :
          /\ Len(iters[k].out) <= Len(v)
          /\ \A i \in 1..Len(iters[k].out) : iters[k].out[i] = v[i]
     /\ call.op \in {"iter", "next"} => (status = "ok" /\ self = old)
     /\ call.op = "next" =>
          \/ ret = <<>> /\ iters[call.index].out = v
          \/ Len(ret) = 1 /\ ret[1] = v[Len(iters[call.index].out)]

\* two iterators over an Inline container of two different elements with a
\* free slot: the first has been run past its end, the second has yielded
\* one item
C17_Witness ==
  /\ Len(iters) = 2 /\ call = Call("next", 1, Default, <<>>) /\ ret = <<>>
  /\ self.rep = "Stack" /\ self.len = 2 /\ N = 3
  /\ self.buf[0] # self.buf[1]
  /\ iters[1].out = <<self.buf[0], self.buf[1]>>
  /\ iters[2].out = <<self.buf[0]>>

\* C19: with N = 2, from new(): after push 0, push 1, push 2 the container
\* is Heap with view [0,1,2]; insert(1, 9) gives [0,9,1,2]; remove(0)
\* returns 0 and gives [9,1,2]; an iterator then yields 9, 1, 2 and None,
\* and the container is still [9,1,2] and can be used again.
C19_WalkThrough ==
  /\ script >= 0 => status = "ok"
  /\ script = 3 => (self.rep = "Heap" /\ as_ref(self) = <<0, 1, 2>>)
  /\ script = 4 => as_ref(self) = <<0, 9, 1, 2>>
  /\ script = 5 => (ret = <<0>> /\ as_ref(self) = <<9, 1, 2>>)
  /\ script >= 6 => self = Heap(<<9, 1, 2>>)
  /\ script = 7 => ret = <<9>>
  /\ script = 8 => ret = <<1>>
  /\ script = 9 => ret = <<2>>
  /\ script = 10 => (ret = <<>> /\ ENABLED Push)

\* the whole walk-through has been made
C19_Witness ==
  /\ script = Len(Script) /\ N = 2
  /\ call = Call("next", 1, Default, <<>>)

\* how many times e occurs in v
Count(v, e) == Cardinality({i \in 1..Len(v) : v[i] = e})

\* w holds the elements of v, each as many times
SameElements(v, w) == Len(v) = Len(w) /\ \A e \in Elems : Count(v, e) = Count(w, e)

C21_PopFrame ==
  call.op = "pop" =>
    /\ status = "ok"
    /\ self.rep = old.rep
    /\ len(old) > 0 =>
         /\ len(self) = len(old) - 1
         /\ ret = <<as_ref(old)[len(old)]>>
         /\ as_ref(self) = SubSeq(as_ref(old), 1, len(old) - 1)
    /\ len(old) = 0 => (self = old /\ ret = <<>>)

\* a pop of three different items held in the array: the last one is
\* returned, the two before it stay
C21_Witness ==
  /\ call.op = "pop" /\ old.rep = "Stack" /\ old.len = 3
  /\ as_ref(old) = <<1, 2, 9>> /\ ret = <<9>>
  /\ as_ref(self) = <<1, 2>>

\* C22: when insert or remove on a Stack container halts, the items the
\* container holds, its length and its representation are at the halt
\* what they were before the call.
C22_HaltLeavesContainer ==
  (call.op \in {"insert", "remove"} /\ status = "panicked" /\ old.rep = "Stack") =>
    /\ self.rep = old.rep
    /\ len(self) = len(old)
    /\ as_ref(self) = as_ref(old)

\* the number that the digit characters of s write in base ten
RECURSIVE DecValue(_)
DecValue(s) ==
  IF Len(s) = 0 THEN 0
  ELSE 10 * DecValue(SubSeq(s, 1, Len(s) - 1))
       + (CHOOSE d \in 0..9 : Digit(d) = s[Len(s)])

\* s is the decimal representation of i: digits only, no leading zero
IsDecimalOf(s, i) ==
  /\ Len(s) >= 1
  /\ \A k \in 1..Len(s) : \E d \in 0..9 : Digit(d) = s[k]
  /\ Len(s) > 1 => s[1] # "0"
  /\ DecValue(s) = i

\* C23: fizz_buzz(i) returns "FizzBuzz" when i is divisible by both 3 and
\* 5, "Fizz" when divisible by 3 only, "Buzz" when divisible by 5 only, and
\* the decimal representation of i otherwise; fast_fizz_buzz(i) returns
\* the same string as fizz_buzz(i), multiples of 15 and i = 0 included.
C23_FastAgreesWithNaive ==
  /\ call.op = "fizz_buzz" =>
       /\ (call.index % 3 = 0 /\ call.index % 5 = 0)
            => ret = <<"F", "i", "z", "z", "B", "u", "z", "z">>
       /\ (call.index % 3 = 0 /\ call.index % 5 # 0)
            => ret = <<"F", "i", "z", "z">>
       /\ (call.index % 3 # 0 /\ call.index % 5 = 0)
            => ret = <<"B", "u", "z", "z">>
       /\ (call.index % 3 # 0 /\ call.index % 5 # 0)
            => IsDecimalOf(ret, call.index)
  /\ call.op = "fast_fizz_buzz" => ret = call.arr

====
